---- MODULE Spec2Model ----
(***************************************************************************)
(* Model of the RPC message envelope of linera-rpc (message.rs) and of the *)
(* guest Amount conversion of linera-sdk (conversions_from_wit.rs).        *)
(*                                                                         *)
(* An envelope is a record [variant, payload]; every payload is a record   *)
(* tagged with its Rust type.  Box<T> owns a T and is modelled by the T.   *)
(***************************************************************************)
EXTENDS Integers, Sequences, FiniteSets, TLC

VARIABLES payload, message, result, guest, amount

vars == <<payload, message, result, guest, amount>>

\* Bounds of the model.
MaxChain == 2
MaxVal == 2
MaxLen == 2

ChainId == 1..MaxChain
Value == 1..MaxVal

RECURSIVE SeqsUpTo(_, _)
SeqsUpTo(S, n) ==
    IF n = 0 THEN {<<>>}
    ELSE LET shorter == SeqsUpTo(S, n - 1)
         IN shorter \cup {Append(s, x) : s \in {t \in shorter : Len(t) = n - 1}, x \in S}

----------------------------------------------------------------------------
(* Payload types carried by the envelope.                                  *)

Unit == [type |-> "Unit"]

NodeErrorKind == {"UnexpectedMessage", "BlobsNotFound", "InactiveChain"}

UnexpectedMessage == [type |-> "NodeError", kind |-> "UnexpectedMessage"]

CryptoHashes == [type : {"CryptoHash"}, hash : Value]

BlobIds == [type : {"BlobId"}, hash : Value]

CertificateRequests(t) ==
    [type : {t}, certificate : [value : [chain_id : ChainId, hash : Value]]]

PayloadsOf(t) ==
    CASE t = "Unit" -> {Unit}
      [] t = "BlockProposal" ->
            [type : {t}, content : [block : [chain_id : ChainId]], signature : Value]
      [] t \in {"HandleLiteCertRequest", "HandleTimeoutCertificateRequest",
                "HandleValidatedCertificateRequest",
                "HandleConfirmedCertificateRequest"} -> CertificateRequests(t)
      [] t = "ChainInfoQuery" -> [type : {t}, chain_id : ChainId, request : Value]
      [] t = "BlobId" -> BlobIds
      [] t = "CryptoHash" -> CryptoHashes
      [] t = "VecCryptoHash" -> [type : {t}, items : SeqsUpTo(CryptoHashes, MaxLen)]
      [] t = "VecBlobId" -> [type : {t}, items : SeqsUpTo(BlobIds, MaxLen)]
      [] t = "LiteVote" -> [type : {t}, value : Value]
      [] t = "ChainInfoResponse" ->
            [type : {t}, info : [chain_id : ChainId], signature : Value]
      [] t = "NodeError" -> [type : {t}, kind : NodeErrorKind]
      [] t = "VersionInfo" -> [type : {t}, version : Value]
      [] t = "BlobContent" -> [type : {t}, bytes : Value]
      [] t = "ConfirmedBlock" -> [type : {t}, block : Value]
      [] t = "VecConfirmedBlockCertificate" ->
            [type : {t}, items : SeqsUpTo(Value, MaxLen)]
      [] t = "CrossChainRequest" -> [type : {t}, target : ChainId, data : Value]

\* The enumeration: each variant with the type of the payload it owns.
RpcMessageVariants ==
    [ BlockProposal |-> "BlockProposal",
      TimeoutCertificate |-> "HandleTimeoutCertificateRequest",
      ValidatedCertificate |-> "HandleValidatedCertificateRequest",
      ConfirmedCertificate |-> "HandleConfirmedCertificateRequest",
      LiteCertificate |-> "HandleLiteCertRequest",
      ChainInfoQuery |-> "ChainInfoQuery",
      DownloadBlobContent |-> "BlobId",
      DownloadConfirmedBlock |-> "CryptoHash",
      DownloadCertificates |-> "VecCryptoHash",
      BlobLastUsedBy |-> "BlobId",
      MissingBlobIds |-> "VecBlobId",
      VersionInfoQuery |-> "Unit",
      GenesisConfigHashQuery |-> "Unit",
      Vote |-> "LiteVote",
      ChainInfoResponse |-> "ChainInfoResponse",
      Error |-> "NodeError",
      VersionInfoResponse |-> "VersionInfo",
      GenesisConfigHashResponse |-> "CryptoHash",
      DownloadBlobContentResponse |-> "BlobContent",
      DownloadConfirmedBlockResponse |-> "ConfirmedBlock",
      DownloadCertificatesResponse |-> "VecConfirmedBlockCertificate",
      BlobLastUsedByResponse |-> "CryptoHash",
      MissingBlobIdsResponse |-> "VecBlobId",
      CrossChainRequest |-> "CrossChainRequest" ]

Variants == DOMAIN RpcMessageVariants

\* Every value of the enumeration.
RpcMessage ==
    UNION {[variant : {v}, payload : PayloadsOf(RpcMessageVariants[v])] : v \in Variants}

\* Option and Result values.
None == [tag |-> "None"]
Some(x) == [tag |-> "Some", value |-> x]
Ok(x) == [tag |-> "Ok", value |-> x]
Err(e) == [tag |-> "Err", value |-> e]

\* A position holding no value: before construction, or after a move.
Nothing == [tag |-> "Nothing"]

----------------------------------------------------------------------------
(* Accessors of the payload types.                                         *)

inner(certificate) == certificate.value

chain_id(value) == value.chain_id

CrossChainRequest_target_chain_id(request) == request.target

----------------------------------------------------------------------------
(* RpcMessage::target_chain_id                                             *)

\* Variant of target_chain_id with CrossChainRequest in the None group.
target_chain_id_NoCrossChain(self) ==
    CASE self.variant = "BlockProposal" -> Some(self.payload.content.block.chain_id)
      [] self.variant = "LiteCertificate" -> Some(self.payload.certificate.value.chain_id)
      [] self.variant \in {"TimeoutCertificate", "ValidatedCertificate",
                           "ConfirmedCertificate"} ->
            Some(chain_id(inner(self.payload.certificate)))
      [] self.variant = "ChainInfoQuery" -> Some(self.payload.chain_id)
      [] OTHER -> None

\* Variant of target_chain_id that also resolves the chain of a ChainInfoResponse.
target_chain_id_Response(self) ==
    CASE self.variant = "BlockProposal" -> Some(self.payload.content.block.chain_id)
      [] self.variant = "LiteCertificate" -> Some(self.payload.certificate.value.chain_id)
      [] self.variant \in {"TimeoutCertificate", "ValidatedCertificate",
                           "ConfirmedCertificate"} ->
            Some(chain_id(inner(self.payload.certificate)))
      [] self.variant = "ChainInfoQuery" -> Some(self.payload.chain_id)
      [] self.variant = "CrossChainRequest" ->
            Some(CrossChainRequest_target_chain_id(self.payload))
      [] self.variant = "ChainInfoResponse" -> Some(self.payload.info.chain_id)
      [] OTHER -> None

target_chain_id(self) ==
    CASE self.variant = "BlockProposal" -> Some(self.payload.content.block.chain_id)
      [] self.variant = "LiteCertificate" -> Some(self.payload.certificate.value.chain_id)
      [] self.variant = "TimeoutCertificate" ->
            Some(chain_id(inner(self.payload.certificate)))
      [] self.variant = "ValidatedCertificate" ->
            Some(chain_id(inner(self.payload.certificate)))
      [] self.variant = "ConfirmedCertificate" ->
            Some(chain_id(inner(self.payload.certificate)))
      [] self.variant = "ChainInfoQuery" -> Some(self.payload.chain_id)
      [] self.variant = "CrossChainRequest" ->
            Some(CrossChainRequest_target_chain_id(self.payload))
      [] self.variant \in {"Vote", "Error", "ChainInfoResponse", "VersionInfoQuery",
                           "VersionInfoResponse", "GenesisConfigHashQuery",
                           "GenesisConfigHashResponse", "DownloadBlobContent",
                           "DownloadBlobContentResponse", "DownloadConfirmedBlock",
                           "DownloadConfirmedBlockResponse", "DownloadCertificates",
                           "BlobLastUsedBy", "BlobLastUsedByResponse", "MissingBlobIds",
                           "MissingBlobIdsResponse", "DownloadCertificatesResponse"} ->
            None

----------------------------------------------------------------------------
(* RpcMessage::is_local_message                                            *)

\* Variant of is_local_message with DownloadCertificates in the false group.
is_local_message_NoCertificates(self) ==
    self.variant \in {"VersionInfoQuery", "GenesisConfigHashQuery", "DownloadBlobContent",
                      "DownloadConfirmedBlock", "BlobLastUsedBy", "MissingBlobIds"}

\* Variant of is_local_message with ChainInfoQuery in the true group.
is_local_message_ChainInfoQuery(self) ==
    self.variant \in {"VersionInfoQuery", "GenesisConfigHashQuery", "DownloadBlobContent",
                      "DownloadConfirmedBlock", "BlobLastUsedBy", "MissingBlobIds",
                      "DownloadCertificates", "ChainInfoQuery"}

is_local_message(self) ==
    CASE self.variant \in {"VersionInfoQuery", "GenesisConfigHashQuery",
                           "DownloadBlobContent", "DownloadConfirmedBlock",
                           "BlobLastUsedBy", "MissingBlobIds", "DownloadCertificates"} ->
            TRUE
      [] self.variant \in {"BlockProposal", "LiteCertificate", "TimeoutCertificate",
                           "ValidatedCertificate", "ConfirmedCertificate",
                           "ChainInfoQuery", "CrossChainRequest", "Vote", "Error",
                           "ChainInfoResponse", "VersionInfoResponse",
                           "GenesisConfigHashResponse", "DownloadBlobContentResponse",
                           "DownloadConfirmedBlockResponse", "BlobLastUsedByResponse",
                           "MissingBlobIdsResponse", "DownloadCertificatesResponse"} ->
            FALSE

----------------------------------------------------------------------------
(* impl TryFrom<RpcMessage> for the seven result types                     *)

try_from_ChainInfoResponse(msg) ==
    CASE msg.variant = "ChainInfoResponse" -> Ok(msg.payload)
      [] msg.variant = "Error" -> Err(msg.payload)
      [] OTHER -> Err(UnexpectedMessage)

try_from_VersionInfo(msg) ==
    CASE msg.variant = "VersionInfoResponse" -> Ok(msg.payload)
      [] msg.variant = "Error" -> Err(msg.payload)
      [] OTHER -> Err(UnexpectedMessage)

try_from_BlobContent(msg) ==
    CASE msg.variant = "DownloadBlobContentResponse" -> Ok(msg.payload)
      [] msg.variant = "Error" -> Err(msg.payload)
      [] OTHER -> Err(UnexpectedMessage)

try_from_ConfirmedBlock(msg) ==
    CASE msg.variant = "DownloadConfirmedBlockResponse" -> Ok(msg.payload)
      [] msg.variant = "Error" -> Err(msg.payload)
      [] OTHER -> Err(UnexpectedMessage)

try_from_VecConfirmedBlockCertificate(msg) ==
    CASE msg.variant = "DownloadCertificatesResponse" -> Ok(msg.payload)
      [] msg.variant = "Error" -> Err(msg.payload)
      [] OTHER -> Err(UnexpectedMessage)

\* Variant of the CryptoHash extractor without the Error arm.
try_from_CryptoHash_NoErrorArm(msg) ==
    CASE msg.variant = "BlobLastUsedByResponse" -> Ok(msg.payload)
      [] msg.variant = "GenesisConfigHashResponse" -> Ok(msg.payload)
      [] OTHER -> Err(UnexpectedMessage)

try_from_CryptoHash(msg) ==
    CASE msg.variant = "BlobLastUsedByResponse" -> Ok(msg.payload)
      [] msg.variant = "GenesisConfigHashResponse" -> Ok(msg.payload)
      [] msg.variant = "Error" -> Err(msg.payload)
      [] OTHER -> Err(UnexpectedMessage)

try_from_VecBlobId(msg) ==
    CASE msg.variant = "MissingBlobIds" -> Ok(msg.payload)
      [] msg.variant = "Error" -> Err(msg.payload)
      [] OTHER -> Err(UnexpectedMessage)

\* The types T for which TryFrom<RpcMessage> is implemented.
ResultTypes ==
    {"ChainInfoResponse", "VersionInfo", "BlobContent", "ConfirmedBlock",
     "VecConfirmedBlockCertificate", "CryptoHash", "VecBlobId"}

\* T::try_from(msg), resolved by the expected type T.
try_from(T, msg) ==
    CASE T = "ChainInfoResponse" -> try_from_ChainInfoResponse(msg)
      [] T = "VersionInfo" -> try_from_VersionInfo(msg)
      [] T = "BlobContent" -> try_from_BlobContent(msg)
      [] T = "ConfirmedBlock" -> try_from_ConfirmedBlock(msg)
      [] T = "VecConfirmedBlockCertificate" -> try_from_VecConfirmedBlockCertificate(msg)
      [] T = "CryptoHash" -> try_from_CryptoHash(msg)
      [] T = "VecBlobId" -> try_from_VecBlobId(msg)

----------------------------------------------------------------------------
(* impl From<...> for RpcMessage                                           *)

\* Variant of the impl table in which From<VersionInfo> builds ChainInfoResponse.
FromImpls_VersionInfoMisrouted ==
    { [from |-> "BlockProposal", to |-> "BlockProposal"],
      [from |-> "HandleLiteCertRequest", to |-> "LiteCertificate"],
      [from |-> "HandleTimeoutCertificateRequest", to |-> "TimeoutCertificate"],
      [from |-> "HandleValidatedCertificateRequest", to |-> "ValidatedCertificate"],
      [from |-> "HandleConfirmedCertificateRequest", to |-> "ConfirmedCertificate"],
      [from |-> "VecCryptoHash", to |-> "DownloadCertificates"],
      [from |-> "ChainInfoQuery", to |-> "ChainInfoQuery"],
      [from |-> "LiteVote", to |-> "Vote"],
      [from |-> "ChainInfoResponse", to |-> "ChainInfoResponse"],
      [from |-> "NodeError", to |-> "Error"],
      [from |-> "CrossChainRequest", to |-> "CrossChainRequest"],
      [from |-> "VersionInfo", to |-> "ChainInfoResponse"],
      [from |-> "BlobContent", to |-> "DownloadBlobContentResponse"],
      [from |-> "ConfirmedBlock", to |-> "DownloadConfirmedBlockResponse"],
      [from |-> "VecConfirmedBlockCertificate", to |-> "DownloadCertificatesResponse"] }

\* One record per impl block: the payload type converted and the variant built.
FromImpls ==
    { [from |-> "BlockProposal", to |-> "BlockProposal"],
      [from |-> "HandleLiteCertRequest", to |-> "LiteCertificate"],
      [from |-> "HandleTimeoutCertificateRequest", to |-> "TimeoutCertificate"],
      [from |-> "HandleValidatedCertificateRequest", to |-> "ValidatedCertificate"],
      [from |-> "HandleConfirmedCertificateRequest", to |-> "ConfirmedCertificate"],
      [from |-> "VecCryptoHash", to |-> "DownloadCertificates"],
      [from |-> "ChainInfoQuery", to |-> "ChainInfoQuery"],
      [from |-> "LiteVote", to |-> "Vote"],
      [from |-> "ChainInfoResponse", to |-> "ChainInfoResponse"],
      [from |-> "NodeError", to |-> "Error"],
      [from |-> "CrossChainRequest", to |-> "CrossChainRequest"],
      [from |-> "VersionInfo", to |-> "VersionInfoResponse"],
      [from |-> "BlobContent", to |-> "DownloadBlobContentResponse"],
      [from |-> "ConfirmedBlock", to |-> "DownloadConfirmedBlockResponse"],
      [from |-> "VecConfirmedBlockCertificate", to |-> "DownloadCertificatesResponse"] }

\* The wrap operations available for payload type t.
WrapOps(t) == {i \in FromImpls : i.from = t}

FromTypes == {i.from : i \in FromImpls}

\* RpcMessage::from(value): the impl is selected by the type of the value.
From(value) ==
    LET impl == CHOOSE i \in FromImpls : i.from = value.type
    IN [variant |-> impl.to, payload |-> value]

----------------------------------------------------------------------------
(* impl From<wit_system_api::Amount> for Amount                            *)
(*                                                                         *)
(* An unsigned integer of width w is the sequence of its w bits, least     *)
(* significant first: bit i of the integer is element i + 1.               *)

Zeros(n) == [i \in 1..n |-> 0]

\* The u64 whose set bits are exactly the positions in S.
U64WithBits(S) == [i \in 1..64 |-> IF (i - 1) \in S THEN 1 ELSE 0]

\* `x as u128`: zero extension.
as_u128(x) == x \o Zeros(128 - Len(x))

\* `x << n` on u128: bits shifted past bit 127 are lost.
shl_u128(x, n) == SubSeq(Zeros(n) \o x, 1, 128)

\* `x | y` on u128.
bitor_u128(x, y) == [i \in 1..128 |-> IF x[i] = 1 \/ y[i] = 1 THEN 1 ELSE 0]

\* Amount::from_attos
from_attos(value) == [type |-> "Amount", attos |-> value]

\* Variant of the conversion that shifts the upper half by 32 bits.
Amount_from_ShiftBy32(balance) ==
    LET value == bitor_u128(shl_u128(as_u128(balance.upper_half), 32),
                            as_u128(balance.lower_half))
    IN from_attos(value)

Amount_from(balance) ==
    LET value == bitor_u128(shl_u128(as_u128(balance.upper_half), 64),
                            as_u128(balance.lower_half))
    IN from_attos(value)

\* Bit positions from which the halves of the guest amounts are built.
HalfBitPositions == {0, 31, 32, 63}

WitAmount ==
    [upper_half : {U64WithBits(S) : S \in SUBSET HalfBitPositions},
     lower_half : {U64WithBits(S) : S \in SUBSET HalfBitPositions}]

----------------------------------------------------------------------------
(* The state machine.                                                      *)
(*   payload  the domain value last given to a constructor                 *)
(*   message  the envelope held in memory, Nothing once moved out          *)
(*   result   the last call: its name, its argument and what it returned   *)
(*   guest    the guest amount last converted                              *)
(*   amount   the SDK amount the conversion returned                       *)

Init ==
    /\ payload = Nothing
    /\ message = Nothing
    /\ result = Nothing
    /\ guest = Nothing
    /\ amount = Nothing

\* An envelope built with a variant constructor of the enumeration.
Construct(v, p) ==
    /\ p \in PayloadsOf(RpcMessageVariants[v])
    /\ payload' = p
    /\ message' = [variant |-> v, payload |-> p]
    /\ result' = [op |-> "construct", arg |-> p, ret |-> message']
    /\ UNCHANGED <<guest, amount>>

\* An envelope built with RpcMessage::from.
Wrap(p) ==
    /\ WrapOps(p.type) # {}
    /\ payload' = p
    /\ message' = From(p)
    /\ result' = [op |-> "from", arg |-> p, ret |-> message']
    /\ UNCHANGED <<guest, amount>>

TargetChainId ==
    /\ message # Nothing
    /\ result' = [op |-> "target_chain_id", arg |-> message,
                  ret |-> target_chain_id(message)]
    /\ UNCHANGED <<payload, message, guest, amount>>

IsLocalMessage ==
    /\ message # Nothing
    /\ result' = [op |-> "is_local_message", arg |-> message,
                  ret |-> is_local_message(message)]
    /\ UNCHANGED <<payload, message, guest, amount>>

\* T::try_from(message) consumes the envelope.
TryFrom(T) ==
    /\ message # Nothing
    /\ result' = [op |-> "try_from", T |-> T, arg |-> message,
                  ret |-> try_from(T, message)]
    /\ message' = Nothing
    /\ UNCHANGED <<payload, guest, amount>>

ConvertAmount(balance) ==
    /\ guest' = balance
    /\ amount' = Amount_from(balance)
    /\ UNCHANGED <<payload, message, result>>

AllPayloads == UNION {PayloadsOf(RpcMessageVariants[v]) : v \in Variants}

Next ==
    \/ \E v \in Variants : \E p \in PayloadsOf(RpcMessageVariants[v]) : Construct(v, p)
    \/ \E p \in AllPayloads : Wrap(p)
    \/ TargetChainId
    \/ IsLocalMessage
    \/ \E T \in ResultTypes : TryFrom(T)

Spec == Init /\ [][Next]_vars

NextAmount == \E balance \in WitAmount : ConvertAmount(balance)

SpecAmount == Init /\ [][NextAmount]_vars

----------------------------------------------------------------------------
(* The groups of the enumeration and the tables the properties refer to.   *)

Inbound ==
    {"BlockProposal", "TimeoutCertificate", "ValidatedCertificate", "ConfirmedCertificate",
     "LiteCertificate", "ChainInfoQuery", "DownloadBlobContent", "DownloadConfirmedBlock",
     "DownloadCertificates", "BlobLastUsedBy", "MissingBlobIds", "VersionInfoQuery",
     "GenesisConfigHashQuery"}

Outbound ==
    {"Vote", "ChainInfoResponse", "Error", "VersionInfoResponse",
     "GenesisConfigHashResponse", "DownloadBlobContentResponse",
     "DownloadConfirmedBlockResponse", "DownloadCertificatesResponse",
     "BlobLastUsedByResponse", "MissingBlobIdsResponse"}

Internal == {"CrossChainRequest"}

ChainTargeted ==
    {"BlockProposal", "LiteCertificate", "TimeoutCertificate", "ValidatedCertificate",
     "ConfirmedCertificate", "ChainInfoQuery", "CrossChainRequest"}

LocallyAnswerable ==
    {"VersionInfoQuery", "GenesisConfigHashQuery", "DownloadBlobContent",
     "DownloadConfirmedBlock", "BlobLastUsedBy", "MissingBlobIds", "DownloadCertificates"}

\* The response variants correlated with each expected result type.
CorrelatedResponses(T) ==
    CASE T = "ChainInfoResponse" -> {"ChainInfoResponse"}
      [] T = "VersionInfo" -> {"VersionInfoResponse"}
      [] T = "BlobContent" -> {"DownloadBlobContentResponse"}
      [] T = "ConfirmedBlock" -> {"DownloadConfirmedBlockResponse"}
      [] T = "VecConfirmedBlockCertificate" -> {"DownloadCertificatesResponse"}
      [] T = "CryptoHash" -> {"BlobLastUsedByResponse", "GenesisConfigHashResponse"}
      [] T = "VecBlobId" -> {"MissingBlobIdsResponse"}

\* The chain identifier embedded in the payload of a chain-targeted envelope.
EmbeddedChain(m) ==
    CASE m.variant = "BlockProposal" -> m.payload.content.block.chain_id
      [] m.variant \in {"LiteCertificate", "TimeoutCertificate", "ValidatedCertificate",
                        "ConfirmedCertificate"} -> m.payload.certificate.value.chain_id
      [] m.variant = "ChainInfoQuery" -> m.payload.chain_id
      [] m.variant = "CrossChainRequest" -> m.payload.target

\* The last call was a call of op.
Called(op) == result # Nothing /\ result.op = op

----------------------------------------------------------------------------
\* C1 as stated: the enumeration has 23 variants; target_chain_id returns Some exactly
\* for BlockProposal, LiteCertificate, TimeoutCertificate, ValidatedCertificate,
\* ConfirmedCertificate, ChainInfoQuery and CrossChainRequest, None for the other 16,
\* and the value in Some is the chain identifier embedded in the payload.
C1_Original ==
    Called("target_chain_id") =>
        /\ Cardinality(Variants) = 23
        /\ Cardinality(Variants \ ChainTargeted) = 16
        /\ result.arg.variant \in ChainTargeted =>
              result.ret = Some(EmbeddedChain(result.arg))
        /\ result.arg.variant \notin ChainTargeted => result.ret = None

\* C1 amended: the enumeration has 24 variants; over every variant and payload,
\* target_chain_id returns Some exactly for the seven chain-targeted variants, None for
\* each of the other 17, and the value in Some is the chain identifier embedded in the
\* payload (block's chain, certificate's chain, query's chain, cross-chain target).
C1_TargetChainIdTable ==
    Called("target_chain_id") =>
        /\ Cardinality(Variants) = 24
        /\ Cardinality(ChainTargeted) = 7
        /\ ChainTargeted \subseteq Variants
        /\ Cardinality(Variants \ ChainTargeted) = 17
        /\ result.arg.variant \in ChainTargeted =>
              result.ret = Some(EmbeddedChain(result.arg))
        /\ result.arg.variant \notin ChainTargeted => result.ret = None

C1_Witness ==
    /\ Called("target_chain_id")
    /\ result.arg.variant = "CrossChainRequest"
    /\ result.ret = Some(MaxChain)

\* C2 as stated: the enumeration has 23 variants; is_local_message returns true
\* exactly for VersionInfoQuery, GenesisConfigHashQuery, DownloadBlobContent,
\* DownloadConfirmedBlock, BlobLastUsedBy, MissingBlobIds and DownloadCertificates,
\* and false for every other variant.
C2_Original ==
    Called("is_local_message") =>
        /\ Cardinality(Variants) = 23
        /\ result.ret <=> (result.arg.variant \in LocallyAnswerable)

\* C2 amended: the enumeration has 24 variants; over every variant and payload,
\* is_local_message returns true exactly for the seven locally answerable queries and
\* false for each of the other 17, among them every response, Error and
\* CrossChainRequest.
C2_IsLocalMessageTable ==
    Called("is_local_message") =>
        /\ Cardinality(Variants) = 24
        /\ Cardinality(LocallyAnswerable) = 7
        /\ LocallyAnswerable \subseteq Variants
        /\ (Outbound \cup Internal) \cap LocallyAnswerable = {}
        /\ result.ret \in BOOLEAN
        /\ result.ret <=> (result.arg.variant \in LocallyAnswerable)

C2_Witness ==
    /\ Called("is_local_message")
    /\ result.arg.variant = "DownloadCertificates"
    /\ Len(result.arg.payload.items) = MaxLen
    /\ result.ret = TRUE

\* C3: error dominance: each of the seven extractors applied to Error(e) fails with
\* exactly e, never with success, and with UnexpectedMessage only when e is that error.
C3_ErrorDominance ==
    Called("try_from") /\ result.arg.variant = "Error" =>
        /\ result.T \in ResultTypes
        /\ result.ret = Err(result.arg.payload)
        /\ result.ret.tag # "Ok"
        /\ result.ret = Err(UnexpectedMessage) => result.arg.payload = UnexpectedMessage

C3_Witness ==
    /\ Called("try_from")
    /\ result.T = "CryptoHash"
    /\ result.arg = From([type |-> "NodeError", kind |-> "BlobsNotFound"])
    /\ result.ret = Err([type |-> "NodeError", kind |-> "BlobsNotFound"])

\* C4: extracting T from the response variant correlated with T succeeds and returns
\* the payload of that variant unchanged, for each of the seven result types.
C4_CorrelatedResponseExtracts ==
    Called("try_from") /\ result.arg.variant \in CorrelatedResponses(result.T) =>
        result.ret = Ok(result.arg.payload)

\* C5: extracting T from an envelope that is neither Error nor a response variant
\* correlated with T fails with UnexpectedMessage, for each of the seven extractors.
C5_OtherVariantsUnexpected ==
    Called("try_from")
      /\ result.arg.variant \notin ({"Error"} \cup CorrelatedResponses(result.T)) =>
        result.ret = Err(UnexpectedMessage)

\* C6: round trip: a value v of result type T, wrapped into the response variant of T
\* and then extracted as T, comes back as Ok(v).  (CryptoHash and Vec<BlobId> have no
\* From impl; their response envelopes are built with the variant constructors.)
C6_RoundTrip ==
    Called("try_from")
      /\ payload # Nothing
      /\ payload.type = result.T
      /\ result.arg \in {[variant |-> v, payload |-> payload] :
                            v \in CorrelatedResponses(result.T)} =>
        /\ result.ret.tag = "Ok"
        /\ result.ret.value = payload


\* The payload types carried by some variant of the enumeration.
CarriedTypes == {RpcMessageVariants[v] : v \in Variants} \ {"Unit"}

\* C7 as stated: every payload type carried by a variant has exactly one wrap
\* operation, which never fails, yields a variant carrying the payload unchanged, and
\* shares its variant with no other payload type.
C7_Original ==
    payload # Nothing /\ payload.type \in CarriedTypes =>
        /\ Cardinality(WrapOps(payload.type)) = 1
        /\ From(payload).payload = payload
        /\ \A i \in FromImpls : i.to = From(payload).variant => i.from = payload.type

\* C7 amended: every payload type carried by a variant except BlobId, CryptoHash and
\* Vec<BlobId> (which have no wrap operation) has exactly one wrap operation; it never
\* fails, yields a variant of the enumeration that carries the payload unchanged, and
\* two distinct payload types never wrap into the same variant.
C7_WrapOneToOne ==
    /\ CarriedTypes \ FromTypes = {"BlobId", "CryptoHash", "VecBlobId"}
    /\ FromTypes \subseteq CarriedTypes
    /\ payload # Nothing /\ payload.type \in FromTypes =>
          /\ Cardinality(WrapOps(payload.type)) = 1
          /\ From(payload) \in RpcMessage
          /\ From(payload).payload = payload
          /\ \A i \in FromImpls : i.to = From(payload).variant => i.from = payload.type
    /\ Called("from") =>
          /\ message = result.ret
          /\ result.ret \in RpcMessage
          /\ result.ret.payload = result.arg
          /\ \A i \in FromImpls : i.to = result.ret.variant => i.from = result.arg.type

C7_Witness ==
    /\ Called("from")
    /\ result.arg = [type |-> "VersionInfo", version |-> MaxVal]
    /\ message = [variant |-> "VersionInfoResponse", payload |-> result.arg]

ExactlyOne(a, b) == (a \/ b) /\ ~(a /\ b)

\* The two routing facts of envelope m.
RoutedLocal(m) == is_local_message(m)
RoutedToChain(m) == target_chain_id(m).tag = "Some"

\* C9: routing classification is a partition: no envelope is both local and chain
\* targeted; each of the 13 inbound variants is exactly one of the two; each outbound
\* variant (Error and Vote among them) is neither.
C9_RoutingPartition ==
    /\ Cardinality(Inbound) = 13
    /\ Called("is_local_message") \/ Called("target_chain_id") =>
          LET m == result.arg
              local == IF result.op = "is_local_message" THEN result.ret
                       ELSE RoutedLocal(m)
              targeted == IF result.op = "target_chain_id" THEN result.ret.tag = "Some"
                          ELSE RoutedToChain(m)
          IN /\ ~(local /\ targeted)
             /\ m.variant \in Inbound => ExactlyOne(local, targeted)
             /\ m.variant \in Outbound => ~local /\ ~targeted

C9_Witness ==
    /\ Called("is_local_message")
    /\ result.arg.variant = "ChainInfoQuery"
    /\ result.ret = FALSE
    /\ RoutedToChain(result.arg)

----------------------------------------------------------------------------
(* Arithmetic on natural numbers of any size, as sequences of WideLimbs    *)
(* digits in base 2^16, least significant digit first.                     *)

LimbBase == 2 ^ 16
WideLimbs == (3 * 64) \div 16

\* The number with bits s[from], s[from + 1], ..., least significant first,
\* taking absent bits as 0.
RECURSIVE BitsValue(_, _, _)
BitsValue(s, from, n) ==
    IF n = 0 THEN 0
    ELSE (IF from <= Len(s) THEN s[from] ELSE 0) + 2 * BitsValue(s, from + 1, n - 1)

\* The natural number that bit sequence s denotes.
ToWide(s) == [k \in 1..WideLimbs |-> BitsValue(s, (k - 1) * 16 + 1, 16)]

RECURSIVE AddFrom(_, _, _, _, _)
AddFrom(x, y, k, carry, acc) ==
    IF k > Len(x) THEN acc
    ELSE LET sum == x[k] + y[k] + carry
         IN AddFrom(x, y, k + 1, sum \div LimbBase, Append(acc, sum % LimbBase))

\* x + y
Plus(x, y) == AddFrom(x, y, 1, 0, <<>>)

\* x * 2^n, by n doublings
RECURSIVE TimesPow2(_, _)
TimesPow2(x, n) ==
    IF n = 0 THEN x
    ELSE LET double == Plus(x, x)
         IN IF Len(double) = Len(x) THEN TimesPow2(double, n - 1) ELSE <<>>

\* C10: the conversion yields exactly upper_half * 2^64 + lower_half atto-units: the
\* result fits in 128 bits without truncation, the halves occupy disjoint bits, and the
\* pair of halves is recovered from the amount (distinct pairs, distinct amounts).
C10_AmountFromHalves ==
    amount # Nothing =>
        /\ Len(amount.attos) = 128
        /\ ToWide(amount.attos) =
              Plus(TimesPow2(ToWide(guest.upper_half), 64), ToWide(guest.lower_half))
        /\ SubSeq(amount.attos, 65, 128) = guest.upper_half
        /\ SubSeq(amount.attos, 1, 64) = guest.lower_half

C10_Witness ==
    /\ amount # Nothing
    /\ guest.upper_half = U64WithBits(HalfBitPositions)
    /\ guest.lower_half = U64WithBits(HalfBitPositions)
    /\ amount.attos[1] = 1 /\ amount.attos[64] = 1
    /\ amount.attos[65] = 1 /\ amount.attos[128] = 1

====
